---- MODULE Spec2Model ----
(***************************************************************************)
(* The catalog controllers of local-library (Author, Genre, Book,          *)
(* BookInstance): form validation, the store reads and writes of every     *)
(* handler, and the calls each handler makes on the response.              *)
(*                                                                         *)
(* A text is a sequence of one-character strings.  An id is a text.  The   *)
(* store is one collection per entity type, a function from the ids of the *)
(* stored documents to their fields.  A response is the sequence of calls  *)
(* the handler made on res / next, in order.                               *)
(***************************************************************************)
EXTENDS Integers, Sequences, FiniteSets, TLC

VARIABLES db, nextId, pc, req, resp, prev, tasks

vars == <<db, nextId, pc, req, resp, prev, tasks>>

(***************************************************************************)
(* Bounds.                                                                 *)
(***************************************************************************)
\* Ids are the texts "1" .. "MaxId"; ids 1..4 are the seeded documents and
\* the store generates the remaining ones, in order, for saved documents.
MaxId == 5

\* The requests that may be in progress at the same time.
MaxTasks == 2

\* Genre names need at least this many characters (isLength({ min: 3 })).
MinGenreLen == 3

(***************************************************************************)
(* Texts.                                                                  *)
(***************************************************************************)
Lowers == <<"a", "b", "c", "x", "y", "z">>

Uppers == <<"A", "B", "C", "X", "Y", "Z">>

Digits == <<"0", "1", "2", "3", "4", "5", "6", "7", "8", "9">>

Range(s) == { s[i] : i \in DOMAIN s }

IsSpace(c) == c = " "

RECURSIVE TrimLeft(_)
TrimLeft(s) ==
  IF s # <<>> /\ IsSpace(Head(s)) THEN TrimLeft(Tail(s)) ELSE s

RECURSIVE TrimRight(_)
TrimRight(s) ==
  IF s # <<>> /\ IsSpace(s[Len(s)]) THEN TrimRight(SubSeq(s, 1, Len(s) - 1)) ELSE s

\* validator.js trim(): whitespace removed from both ends.
Trim(s) == TrimRight(TrimLeft(s))

\* validator.js escape(): markup-significant characters become entities.
EscapeChar(c) ==
  CASE c = "<" -> <<"&", "l", "t", ";">>
    [] c = ">" -> <<"&", "g", "t", ";">>
    [] c = "&" -> <<"&", "a", "m", "p", ";">>
    [] OTHER -> <<c>>

RECURSIVE Escape(_)
Escape(s) ==
  IF s = <<>> THEN <<>> ELSE EscapeChar(Head(s)) \o Escape(Tail(s))

\* validator.js isAlphanumeric(): non-empty, letters and digits only.
IsAlphanumeric(s) ==
  /\ s # <<>>
  /\ \A i \in DOMAIN s : s[i] \in Range(Lowers) \cup Range(Uppers) \cup Range(Digits)

\* Case folding of one character, as the collation of strength 2 compares.
Fold(c) ==
  IF \E k \in DOMAIN Uppers : Uppers[k] = c
    THEN Lowers[CHOOSE k \in DOMAIN Uppers : Uppers[k] = c]
    ELSE c

\* Equality under collation { locale: "en", strength: 2 }: case is ignored.
CollationEqual(s, t) ==
  /\ Len(s) = Len(t)
  /\ \A i \in DOMAIN s : Fold(s[i]) = Fold(t[i])

DigitVal(c) == (CHOOSE k \in DOMAIN Digits : Digits[k] = c) - 1

IsDigit(c) == c \in Range(Digits)

\* validator.js isISO8601() on the calendar form YYYY-MM-DD.
IsISO8601(s) ==
  /\ Len(s) = 10
  /\ s[5] = "-" /\ s[8] = "-"
  /\ \A i \in {1, 2, 3, 4, 6, 7, 9, 10} : IsDigit(s[i])
  /\ 10 * DigitVal(s[6]) + DigitVal(s[7]) \in 1..12
  /\ 10 * DigitVal(s[9]) + DigitVal(s[10]) \in 1..31

\* validator.js toDate(): the date a valid text denotes.
ToDate(s) ==
  [ year  |-> 1000 * DigitVal(s[1]) + 100 * DigitVal(s[2])
              + 10 * DigitVal(s[3]) + DigitVal(s[4]),
    month |-> 10 * DigitVal(s[6]) + DigitVal(s[7]),
    day   |-> 10 * DigitVal(s[9]) + DigitVal(s[10]) ]

(***************************************************************************)
(* Validation chains (express-validator).  Every failing validator of a    *)
(* chain adds one error; the errors of a submission are collected in chain *)
(* order.                                                                  *)
(***************************************************************************)
Error(field, msg) == [field |-> field, msg |-> msg]

\* .trim().isLength({ min: n }): the trimmed value has at least n characters.
RequiredErrors(field, raw, min, msg) ==
  IF Len(Trim(raw)) < min THEN <<Error(field, msg)>> ELSE <<>>

\* .trim()...escape()...isAlphanumeric(), checked on the sanitized value.
AlnumErrors(field, raw, msg) ==
  IF IsAlphanumeric(Escape(Trim(raw))) THEN <<>> ELSE <<Error(field, msg)>>

\* .optional({ values: "falsy" }).isISO8601(): an empty value skips the chain.
DateErrors(field, raw, msg) ==
  IF raw # <<>> /\ ~IsISO8601(raw) THEN <<Error(field, msg)>> ELSE <<>>

\* A sanitized required text: .trim() and .escape().
Clean(raw) == Escape(Trim(raw))

\* A sanitized optional date: absent (<<>>) or the one date parsed.
DateValue(raw) == IF raw # <<>> /\ IsISO8601(raw) THEN <<ToDate(raw)>> ELSE <<>>

AuthorErrors(f) ==
  RequiredErrors("first_name", f.first_name, 1, "First name must be specified.")
  \o AlnumErrors("first_name", f.first_name,
                 "First name has non-alphanumeric characters.")
  \o RequiredErrors("family_name", f.family_name, 1, "Family name must be specified.")
  \o AlnumErrors("family_name", f.family_name,
                 "Family name has non-alphanumeric characters.")
  \o DateErrors("date_of_birth", f.date_of_birth, "Invalid date of birth.")
  \o DateErrors("date_of_death", f.date_of_death, "Invalid date of death.")

\* new Author({ ... }) from the sanitized body.
AuthorDoc(f) ==
  [ first_name    |-> Clean(f.first_name),
    family_name   |-> Clean(f.family_name),
    date_of_birth |-> DateValue(f.date_of_birth),
    date_of_death |-> DateValue(f.date_of_death) ]

GenreErrors(f) ==
  RequiredErrors("name", f.name, MinGenreLen,
                 "Genre must contain at least 3 characters")

\* new Genre({ name: req.body.name }) from the sanitized body.
GenreDoc(f) == [ name |-> Clean(f.name) ]

\* The first middleware of the Book POSTs: req.body.genre becomes an array.
\* The raw field is absent, one value, or an array of values.
NormalizeGenre(g) ==
  CASE g.shape = "undefined" -> <<>>
    [] g.shape = "scalar"    -> <<g.value>>
    [] g.shape = "array"     -> g.value

BookCreateMsgs ==
  [ title |-> "Title must not be empty", author |-> "Author must not be empty",
    summary |-> "Summary must not be empty", isbn |-> "ISBN must not be empty" ]

BookUpdateMsgs ==
  [ title |-> "Title must not be empty.", author |-> "Author must not be empty.",
    summary |-> "Summary must not be empty.", isbn |-> "ISBN must not be empty." ]

BookErrors(f, msgs) ==
  RequiredErrors("title", f.title, 1, msgs.title)
  \o RequiredErrors("author", f.author, 1, msgs.author)
  \o RequiredErrors("summary", f.summary, 1, msgs.summary)
  \o RequiredErrors("isbn", f.isbn, 1, msgs.isbn)

\* new Book({ ... }) from the sanitized body; body("genre.*").escape().
BookDoc(f) ==
  [ title   |-> Clean(f.title),
    author  |-> Clean(f.author),
    summary |-> Clean(f.summary),
    isbn    |-> Clean(f.isbn),
    genre   |-> [ k \in DOMAIN NormalizeGenre(f.genre) |->
                    Escape(NormalizeGenre(f.genre)[k]) ] ]

BookInstanceErrors(f) ==
  RequiredErrors("book", f.book, 1, "Book must be specified.")
  \o RequiredErrors("imprint", f.imprint, 1, "Imprint must be specified.")
  \o DateErrors("due_back", f.due_back, "Invalid date.")

\* new BookInstance({ ... }) from the sanitized body; body("status").escape().
BookInstanceDoc(f) ==
  [ book     |-> Clean(f.book),
    imprint  |-> Clean(f.imprint),
    status   |-> Escape(f.status),
    due_back |-> DateValue(f.due_back) ]

(***************************************************************************)
(* The store (mongoose models over one collection per entity type).        *)
(***************************************************************************)
Types == {"author", "genre", "book", "bookinstance"}

IdText(k) == <<ToString(k)>>

\* Every well-formed id a request can carry.
Ids == { IdText(k) : k \in 1..MaxId }

\* A body field that was not submitted.
NoId == <<>>

Empty == [ i \in {} |-> i ]

\* Model.findById(id): the document, when one is stored under id.
Exists(d, type, id) == id \in DOMAIN d[type]

\* doc.save(): the new document is inserted under its id.
Save(d, type, id, doc) ==
  [ d EXCEPT ![type] =
      [ j \in DOMAIN d[type] \cup {id} |-> IF j = id THEN doc ELSE d[type][j] ] ]

\* Model.findByIdAndUpdate(id, doc, {}): the stored document takes the fields
\* of doc; with no upsert option nothing is written when none is stored.
FindByIdAndUpdate(d, type, id, doc) ==
  IF Exists(d, type, id) THEN [ d EXCEPT ![type][id] = doc ] ELSE d

\* Model.findByIdAndDelete(id).
FindByIdAndDelete(d, type, id) ==
  [ d EXCEPT ![type] = [ j \in DOMAIN d[type] \ {id} |-> d[type][j] ] ]

\* Book.find({ author: id }): the books of an author.
BooksByAuthor(d, id) == { b \in DOMAIN d.book : d.book[b].author = id }

\* Book.find({ genre: id }): the books whose genre array holds id.
BooksWithGenre(d, id) == { b \in DOMAIN d.book : id \in Range(d.book[b].genre) }

\* BookInstance.find({ book: id }): the copies of a book.
InstancesOfBook(d, id) ==
  { c \in DOMAIN d.bookinstance : d.bookinstance[c].book = id }

\* Genre.findOne({ name }).collation({ locale: "en", strength: 2 }): the ids
\* of the genres whose name equals name ignoring case.
GenresNamed(d, name) ==
  { g \in DOMAIN d.genre : CollationEqual(d.genre[g].name, name) }

\* The document findOne returns: the first match in insertion order.
FirstId(S) == CHOOSE g \in S : \A h \in S : DigitVal(g[1]) <= DigitVal(h[1])

(***************************************************************************)
(* Responses: the calls a handler makes on res and next, in order.         *)
(***************************************************************************)
\* "/catalog/authors", "/catalog/genres", "/catalog/books",
\* "/catalog/bookinstances".
ListUrl(type) == [ page |-> "list", type |-> type, id |-> NoId ]

\* The url virtual of a document: its id-addressed detail location.
DetailUrl(type, id) == [ page |-> "detail", type |-> type, id |-> id ]

Redirect(url) == [ kind |-> "redirect", url |-> url ]

Render(view, locals) == [ kind |-> "render", view |-> view, locals |-> locals ]

\* An exception thrown inside the handler: asyncHandler passes it to next().
Throw(name) == [ kind |-> "throw", error |-> name ]

\* next(err) with err.status = 404.
NotFound(msg) == [ kind |-> "next", status |-> 404, error |-> msg ]

\* What a handler leaves behind: the store, the id generator, the response.
Out(d, n, r) == [ db |-> d, nextId |-> n, resp |-> r ]

(***************************************************************************)
(* Author handlers.  Each takes the store d, the id generator n and the    *)
(* request's inputs, and gives Out(store, generator, response).            *)
(***************************************************************************)
\* author_create_post with the save outside the else branch: a submission
\* with errors is rendered and saved as well.
author_create_post_saves_anyway(d, n, f) ==
  LET errors == AuthorErrors(f)
      author == AuthorDoc(f)
  IN IF errors # <<>>
       THEN Out(Save(d, "author", IdText(n), author), n + 1,
                <<Render("author_form", [errors |-> errors, author |-> author])>>)
       ELSE Out(Save(d, "author", IdText(n), author), n + 1,
                <<Redirect(DetailUrl("author", IdText(n)))>>)

author_create_post(d, n, f) ==
  LET errors == AuthorErrors(f)
      author == AuthorDoc(f)
  IN IF errors # <<>>
       THEN Out(d, n, <<Render("author_form", [errors |-> errors, author |-> author])>>)
       ELSE Out(Save(d, "author", IdText(n), author), n + 1,
                <<Redirect(DetailUrl("author", IdText(n)))>>)

\* No return follows the redirect: the render is issued as well.
author_delete_get(d, n, id) ==
  LET locals == [ author |-> IF Exists(d, "author", id) THEN <<id>> ELSE <<>>,
                  author_books |-> BooksByAuthor(d, id) ]
  IN IF ~Exists(d, "author", id)
       THEN Out(d, n, <<Redirect(ListUrl("author")), Render("author_delete", locals)>>)
       ELSE Out(d, n, <<Render("author_delete", locals)>>)

\* author_delete_post without the comparison of the body id with the path id.
author_delete_post_any_path(d, n, id, authorid) ==
  IF ~Exists(d, "author", authorid)
    THEN Out(d, n, <<Redirect(ListUrl("author"))>>)
    ELSE IF BooksByAuthor(d, authorid) # {}
      THEN Out(d, n, <<Render("author_delete",
                              [ author |-> <<authorid>>,
                                author_books |-> BooksByAuthor(d, authorid) ])>>)
      ELSE Out(FindByIdAndDelete(d, "author", authorid), n,
               <<Redirect(ListUrl("author"))>>)

author_delete_post(d, n, id, authorid) ==
  IF ~Exists(d, "author", authorid) \/ authorid # id
    THEN Out(d, n, <<Redirect(ListUrl("author"))>>)
    ELSE IF BooksByAuthor(d, authorid) # {}
      THEN Out(d, n, <<Render("author_delete",
                              [ author |-> <<authorid>>,
                                author_books |-> BooksByAuthor(d, authorid) ])>>)
      ELSE Out(FindByIdAndDelete(d, "author", authorid), n,
               <<Redirect(ListUrl("author"))>>)

author_update_get(d, n, id) ==
  IF ~Exists(d, "author", id)
    THEN Out(d, n, <<Redirect(ListUrl("author"))>>)
    ELSE Out(d, n, <<Render("author_form", [errors |-> <<>>, author |-> <<d.author[id]>>])>>)

\* author_update_post that saves the submitted document as a new one
\* instead of updating the document of the path id.
author_update_post_saves_new(d, n, id, f) ==
  LET errors == AuthorErrors(f)
      updatedAuthor == AuthorDoc(f)
  IN IF errors # <<>>
       THEN Out(d, n, <<Throw("ReferenceError")>>)
       ELSE Out(Save(d, "author", IdText(n), updatedAuthor), n + 1,
                <<Redirect(DetailUrl("author", id))>>)

\* The failure branch reads `author`, a name the handler never declares:
\* console.log(author) throws a ReferenceError before the render.
author_update_post(d, n, id, f) ==
  LET errors == AuthorErrors(f)
      updatedAuthor == AuthorDoc(f)
  IN IF errors # <<>>
       THEN Out(d, n, <<Throw("ReferenceError")>>)
       ELSE Out(FindByIdAndUpdate(d, "author", id, updatedAuthor), n,
                <<Redirect(DetailUrl("author", id))>>)

(***************************************************************************)
(* Genre handlers.                                                         *)
(***************************************************************************)
\* genre_create_post with the duplicate lookup made without the collation:
\* names are compared exactly.
genre_create_post_exact(d, n, f) ==
  LET errors == GenreErrors(f)
      genre == GenreDoc(f)
      genreExists == { g \in DOMAIN d.genre : d.genre[g].name = genre.name }
  IN IF errors # <<>>
       THEN Out(d, n, <<Render("genre_form", [errors |-> errors, genre |-> genre])>>)
       ELSE IF genreExists # {}
         THEN Out(d, n, <<Redirect(DetailUrl("genre", FirstId(genreExists)))>>)
         ELSE Out(Save(d, "genre", IdText(n), genre), n + 1,
                  <<Redirect(DetailUrl("genre", IdText(n)))>>)

genre_create_post(d, n, f) ==
  LET errors == GenreErrors(f)
      genre == GenreDoc(f)
      genreExists == GenresNamed(d, genre.name)
  IN IF errors # <<>>
       THEN Out(d, n, <<Render("genre_form", [errors |-> errors, genre |-> genre])>>)
       ELSE IF genreExists # {}
         THEN Out(d, n, <<Redirect(DetailUrl("genre", FirstId(genreExists)))>>)
         ELSE Out(Save(d, "genre", IdText(n), genre), n + 1,
                  <<Redirect(DetailUrl("genre", IdText(n)))>>)

genre_delete_get(d, n, id) ==
  IF ~Exists(d, "genre", id)
    THEN Out(d, n, <<Redirect(ListUrl("genre"))>>)
    ELSE Out(d, n, <<Render("genre_delete",
                            [ genre |-> <<id>>, genre_books |-> BooksWithGenre(d, id) ])>>)

genre_delete_post(d, n, id, genreid) ==
  IF ~Exists(d, "genre", genreid) \/ genreid # id
    THEN Out(d, n, <<Redirect(ListUrl("genre"))>>)
    ELSE IF BooksWithGenre(d, genreid) # {}
      THEN Out(d, n, <<Render("genre_delete",
                              [ genre |-> <<genreid>>,
                                genre_books |-> BooksWithGenre(d, genreid) ])>>)
      ELSE Out(FindByIdAndDelete(d, "genre", genreid), n,
               <<Redirect(ListUrl("genre"))>>)

\* No check of the lookup: the form is rendered with genre null when absent.
genre_update_get(d, n, id) ==
  Out(d, n, <<Render("genre_form",
                     [ errors |-> <<>>,
                       genre |-> IF Exists(d, "genre", id) THEN <<d.genre[id]>> ELSE <<>> ])>>)

genre_update_post(d, n, id, f) ==
  LET errors == GenreErrors(f)
      updatedGenre == GenreDoc(f)
      genreExists == GenresNamed(d, updatedGenre.name)
  IN IF errors # <<>>
       THEN Out(d, n, <<Render("genre_form", [errors |-> errors, genre |-> updatedGenre])>>)
       ELSE IF genreExists # {}
         THEN Out(d, n, <<Redirect(DetailUrl("genre", FirstId(genreExists)))>>)
         ELSE Out(FindByIdAndUpdate(d, "genre", id, updatedGenre), n,
                  <<Redirect(DetailUrl("genre", id))>>)

(***************************************************************************)
(* Book handlers.                                                          *)
(***************************************************************************)
\* The success branch calls book.dave(), which no document has: a TypeError
\* is thrown and nothing is saved.
book_create_post(d, n, f) ==
  LET errors == BookErrors(f, BookCreateMsgs)
      book == BookDoc(f)
  IN IF errors # <<>>
       THEN Out(d, n, <<Render("book_form", [errors |-> errors, book |-> book])>>)
       ELSE Out(d, n, <<Throw("TypeError")>>)

\* No return follows the redirect: the render is issued as well.
book_delete_get(d, n, id) ==
  LET locals == [ book |-> IF Exists(d, "book", id) THEN <<id>> ELSE <<>>,
                  book_instances |-> InstancesOfBook(d, id) ]
  IN IF ~Exists(d, "book", id)
       THEN Out(d, n, <<Redirect(ListUrl("book")), Render("book_delete", locals)>>)
       ELSE Out(d, n, <<Render("book_delete", locals)>>)

\* book_delete_post without the check of the book's instances.
book_delete_post_unchecked(d, n, id, bookid) ==
  IF ~Exists(d, "book", bookid) \/ id # bookid
    THEN Out(d, n, <<Redirect(ListUrl("book"))>>)
    ELSE Out(FindByIdAndDelete(d, "book", bookid), n, <<Redirect(ListUrl("book"))>>)

book_delete_post(d, n, id, bookid) ==
  IF ~Exists(d, "book", bookid) \/ id # bookid
    THEN Out(d, n, <<Redirect(ListUrl("book"))>>)
    ELSE IF InstancesOfBook(d, bookid) # {}
      THEN Out(d, n, <<Render("book_delete",
                              [ book |-> <<bookid>>,
                                book_instances |-> InstancesOfBook(d, bookid) ])>>)
      ELSE Out(FindByIdAndDelete(d, "book", bookid), n,
               <<Redirect(ListUrl("book"))>>)

book_update_get(d, n, id) ==
  IF ~Exists(d, "book", id)
    THEN Out(d, n, <<NotFound("Book not found")>>)
    ELSE Out(d, n, <<Render("book_form", [errors |-> <<>>, book |-> <<d.book[id]>>])>>)

\* findByIdAndUpdate gives the document found, null when there is none, and
\* updatedBook.url then throws a TypeError.
book_update_post(d, n, id, f) ==
  LET errors == BookErrors(f, BookUpdateMsgs)
      book == BookDoc(f)
  IN IF errors # <<>>
       THEN Out(d, n, <<Render("book_form", [errors |-> errors, book |-> book])>>)
       ELSE IF Exists(d, "book", id)
         THEN Out(FindByIdAndUpdate(d, "book", id, book), n,
                  <<Redirect(DetailUrl("book", id))>>)
         ELSE Out(FindByIdAndUpdate(d, "book", id, book), n, <<Throw("TypeError")>>)

(***************************************************************************)
(* BookInstance handlers.                                                  *)
(***************************************************************************)
\* The book path of a new BookInstance: a text that is no id is not cast,
\* and the path stays undefined.
HasBook(doc) == doc.book \in Ids

\* The failure branch calls bookInstance.book.toString(): a TypeError when
\* the book path is undefined.
bookinstance_create_post(d, n, f) ==
  LET errors == BookInstanceErrors(f)
      bookInstance == BookInstanceDoc(f)
  IN IF errors # <<>>
       THEN IF HasBook(bookInstance)
         THEN Out(d, n, <<Render("bookinstance_form",
                                 [ errors |-> errors, bookinstance |-> bookInstance,
                                   selected_book |-> bookInstance.book ])>>)
         ELSE Out(d, n, <<Throw("TypeError")>>)
       ELSE Out(Save(d, "bookinstance", IdText(n), bookInstance), n + 1,
                <<Redirect(DetailUrl("bookinstance", IdText(n)))>>)

bookinstance_delete_get(d, n, id) ==
  IF ~Exists(d, "bookinstance", id)
    THEN Out(d, n, <<Redirect(ListUrl("bookinstance"))>>)
    ELSE Out(d, n, <<Render("bookinstance_delete", [ bookinstance |-> <<id>> ])>>)

\* The owning book is looked up, the instance deleted, and book.url read:
\* a TypeError when the book does not exist.
bookinstance_delete_post(d, n, id, bookinstanceid) ==
  IF ~Exists(d, "bookinstance", bookinstanceid) \/ bookinstanceid # id
    THEN Out(d, n, <<Redirect(ListUrl("bookinstance"))>>)
    ELSE LET book == d.bookinstance[bookinstanceid].book
         IN Out(FindByIdAndDelete(d, "bookinstance", bookinstanceid), n,
                IF Exists(d, "book", book)
                  THEN <<Redirect(DetailUrl("book", book))>>
                  ELSE <<Throw("TypeError")>>)

\* bookInstance.book is read with no check of the lookup: a TypeError when
\* the instance does not exist.
bookinstance_update_get(d, n, id) ==
  IF ~Exists(d, "bookinstance", id)
    THEN Out(d, n, <<Throw("TypeError")>>)
    ELSE Out(d, n, <<Render("bookinstance_form",
                            [ errors |-> <<>>, bookinstance |-> d.bookinstance[id],
                              selected_book |-> d.bookinstance[id].book ])>>)

bookinstance_update_post(d, n, id, f) ==
  LET errors == BookInstanceErrors(f)
      updatedBookInstance == BookInstanceDoc(f)
  IN IF errors # <<>>
       THEN IF HasBook(updatedBookInstance)
         THEN Out(d, n, <<Render("bookinstance_form",
                                 [ errors |-> errors,
                                   bookinstance |-> updatedBookInstance,
                                   selected_book |-> updatedBookInstance.book ])>>)
         ELSE Out(d, n, <<Throw("TypeError")>>)
       ELSE Out(FindByIdAndUpdate(d, "bookinstance", id, updatedBookInstance), n,
                <<Redirect(DetailUrl("bookinstance", id))>>)

(***************************************************************************)
(* Requests: the submissions the handlers are exercised with.              *)
(***************************************************************************)
Blank == <<>>

Space == <<" ">>

GoodDate == <<"2", "0", "0", "1", "-", "0", "2", "-", "0", "3">>

BadMonth == <<"2", "0", "0", "1", "-", "1", "3", "-", "0", "3">>

NotADate == <<"x", "y", "z">>

AuthorForm(first, family, birth, death) ==
  [ first_name |-> first, family_name |-> family,
    date_of_birth |-> birth, date_of_death |-> death ]

AuthorForms ==
  { AuthorForm(<<"a">>, <<"b">>, Blank, Blank),
    AuthorForm(<<" ", "a", " ">>, <<"b">>, GoodDate, Blank),
    AuthorForm(Blank, <<"b">>, Blank, Blank),
    AuthorForm(<<"a">>, Space, GoodDate, Blank),
    AuthorForm(<<"a", "<">>, <<"b">>, Blank, Blank),
    AuthorForm(<<"a">>, <<"b">>, Blank, BadMonth) }

GenreForms ==
  { [ name |-> Blank ],
    [ name |-> <<"a", "b">> ],
    [ name |-> <<" ", "a", "b", " ">> ],
    [ name |-> <<"a", "b", "c">> ],
    [ name |-> <<"A", "B", "C">> ],
    [ name |-> <<" ", "x", "y", "z">> ] }

NoGenre == [ shape |-> "undefined", value |-> <<>> ]

OneGenre(g) == [ shape |-> "scalar", value |-> g ]

ManyGenres(gs) == [ shape |-> "array", value |-> gs ]

BookForm(title, author, summary, isbn, genre) ==
  [ title |-> title, author |-> author, summary |-> summary,
    isbn |-> isbn, genre |-> genre ]

BookForms ==
  { BookForm(<<"x">>, IdText(1), <<"y">>, <<"1">>, NoGenre),
    BookForm(<<"<">>, IdText(1), <<"y">>, <<"1">>, OneGenre(IdText(2))),
    BookForm(<<"x">>, IdText(5), <<" ", "y">>, <<"1">>,
             ManyGenres(<<IdText(5), IdText(2), IdText(5)>>)),
    BookForm(Space, IdText(1), <<"y">>, <<"1">>, ManyGenres(<<IdText(2)>>)),
    BookForm(<<"x">>, Blank, <<"y">>, Blank, NoGenre) }

BookInstanceForm(book, imprint, status, due) ==
  [ book |-> book, imprint |-> imprint, status |-> status, due_back |-> due ]

BookInstanceForms ==
  { BookInstanceForm(IdText(3), <<"x">>, <<"A">>, Blank),
    BookInstanceForm(IdText(1), <<"x", " ">>, <<"A">>, GoodDate),
    BookInstanceForm(Blank, <<"x">>, <<"A">>, Blank),
    BookInstanceForm(IdText(3), Space, <<"A">>, Blank),
    BookInstanceForm(IdText(3), <<"x">>, <<"A">>, NotADate),
    BookInstanceForm(Space, Blank, <<"A">>, BadMonth) }

\* The id a delete POST carries in its body: an id, or none.
BodyIds == Ids \cup {NoId}

Request(op, type, id, bodyid, form) ==
  [ op |-> op, type |-> type, id |-> id, bodyid |-> bodyid, form |-> form ]

NoRequest == Request("none", "none", NoId, NoId, <<>>)

(***************************************************************************)
(* The state machine.  Requests do not overlap: a handler runs from the    *)
(* request to its response in one step, and the next request is taken once *)
(* the response has gone out.  prev is the store the request found.        *)
(* tasks holds the requests in progress when requests overlap (SpecRace);  *)
(* no slot is ever taken here.                                             *)
(***************************************************************************)
\* The slots of the requests in progress at the same time.
Tasks == 1..MaxTasks

\* A slot no request has taken yet.  kind, id, bodyid and form are the
\* request; pc is the handler's position; found, book and instances are
\* what its lookups returned (<<>>: not returned yet); resp is its response.
\* bookExisted and pending are history: whether the book of a saved copy
\* was stored when the copy was saved, and the book deletes that had read
\* their instances and not yet deleted at that moment.
NewTask ==
  [ kind |-> "none", pc |-> "new", id |-> NoId, bodyid |-> NoId, form |-> <<>>,
    found |-> {}, book |-> <<>>, instances |-> <<>>, resp |-> <<>>,
    bookExisted |-> FALSE, pending |-> {} ]

NoTasks == [ t \in Tasks |-> NewTask ]

\* The catalogue the application starts with: one author, one genre, one
\* book of that author in that genre, one copy of that book.
Seed ==
  [ author       |-> [ i \in {IdText(1)} |->
                         AuthorDoc(AuthorForm(<<"a">>, <<"b">>, Blank, Blank)) ],
    genre        |-> [ i \in {IdText(2)} |-> GenreDoc([ name |-> <<"a", "b", "c">> ]) ],
    book         |-> [ i \in {IdText(3)} |->
                         BookDoc(BookForm(<<"x">>, IdText(1), <<"y">>, <<"1">>,
                                          OneGenre(IdText(2)))) ],
    bookinstance |-> [ i \in {IdText(4)} |->
                         BookInstanceDoc(BookInstanceForm(IdText(3), <<"x">>, <<"A">>,
                                                          Blank)) ] ]

Init ==
  /\ db = Seed
  /\ nextId = 5
  /\ pc = "idle"
  /\ req = NoRequest
  /\ resp = <<>>
  /\ prev = Seed
  /\ tasks = NoTasks

\* The handler's outcome becomes the state; the request and the store it
\* found are kept beside the response.
Respond(r, out) ==
  /\ pc' = "responded"
  /\ req' = r
  /\ db' = out.db
  /\ nextId' = out.nextId
  /\ resp' = out.resp
  /\ prev' = db
  /\ UNCHANGED tasks

AuthorCreatePost ==
  /\ pc = "idle" /\ nextId <= MaxId
  /\ \E f \in AuthorForms :
       Respond(Request("create_post", "author", NoId, NoId, f),
               author_create_post(db, nextId, f))

AuthorDeleteGet ==
  /\ pc = "idle"
  /\ \E id \in Ids :
       Respond(Request("delete_get", "author", id, NoId, <<>>),
               author_delete_get(db, nextId, id))

AuthorDeletePost ==
  /\ pc = "idle"
  /\ \E id \in Ids, bodyid \in BodyIds :
       Respond(Request("delete_post", "author", id, bodyid, <<>>),
               author_delete_post(db, nextId, id, bodyid))

AuthorUpdateGet ==
  /\ pc = "idle"
  /\ \E id \in Ids :
       Respond(Request("update_get", "author", id, NoId, <<>>),
               author_update_get(db, nextId, id))

AuthorUpdatePost ==
  /\ pc = "idle"
  /\ \E id \in Ids, f \in AuthorForms :
       Respond(Request("update_post", "author", id, NoId, f),
               author_update_post(db, nextId, id, f))

GenreCreatePost ==
  /\ pc = "idle" /\ nextId <= MaxId
  /\ \E f \in GenreForms :
       Respond(Request("create_post", "genre", NoId, NoId, f),
               genre_create_post(db, nextId, f))

GenreDeleteGet ==
  /\ pc = "idle"
  /\ \E id \in Ids :
       Respond(Request("delete_get", "genre", id, NoId, <<>>),
               genre_delete_get(db, nextId, id))

GenreDeletePost ==
  /\ pc = "idle"
  /\ \E id \in Ids, bodyid \in BodyIds :
       Respond(Request("delete_post", "genre", id, bodyid, <<>>),
               genre_delete_post(db, nextId, id, bodyid))

GenreUpdateGet ==
  /\ pc = "idle"
  /\ \E id \in Ids :
       Respond(Request("update_get", "genre", id, NoId, <<>>),
               genre_update_get(db, nextId, id))

GenreUpdatePost ==
  /\ pc = "idle"
  /\ \E id \in Ids, f \in GenreForms :
       Respond(Request("update_post", "genre", id, NoId, f),
               genre_update_post(db, nextId, id, f))

BookCreatePost ==
  /\ pc = "idle" /\ nextId <= MaxId
  /\ \E f \in BookForms :
       Respond(Request("create_post", "book", NoId, NoId, f),
               book_create_post(db, nextId, f))

BookDeleteGet ==
  /\ pc = "idle"
  /\ \E id \in Ids :
       Respond(Request("delete_get", "book", id, NoId, <<>>),
               book_delete_get(db, nextId, id))

BookDeletePost ==
  /\ pc = "idle"
  /\ \E id \in Ids, bodyid \in BodyIds :
       Respond(Request("delete_post", "book", id, bodyid, <<>>),
               book_delete_post(db, nextId, id, bodyid))

BookUpdateGet ==
  /\ pc = "idle"
  /\ \E id \in Ids :
       Respond(Request("update_get", "book", id, NoId, <<>>),
               book_update_get(db, nextId, id))

BookUpdatePost ==
  /\ pc = "idle"
  /\ \E id \in Ids, f \in BookForms :
       Respond(Request("update_post", "book", id, NoId, f),
               book_update_post(db, nextId, id, f))

BookInstanceCreatePost ==
  /\ pc = "idle" /\ nextId <= MaxId
  /\ \E f \in BookInstanceForms :
       Respond(Request("create_post", "bookinstance", NoId, NoId, f),
               bookinstance_create_post(db, nextId, f))

BookInstanceDeleteGet ==
  /\ pc = "idle"
  /\ \E id \in Ids :
       Respond(Request("delete_get", "bookinstance", id, NoId, <<>>),
               bookinstance_delete_get(db, nextId, id))

BookInstanceDeletePost ==
  /\ pc = "idle"
  /\ \E id \in Ids, bodyid \in BodyIds :
       Respond(Request("delete_post", "bookinstance", id, bodyid, <<>>),
               bookinstance_delete_post(db, nextId, id, bodyid))

BookInstanceUpdateGet ==
  /\ pc = "idle"
  /\ \E id \in Ids :
       Respond(Request("update_get", "bookinstance", id, NoId, <<>>),
               bookinstance_update_get(db, nextId, id))

BookInstanceUpdatePost ==
  /\ pc = "idle"
  /\ \E id \in Ids, f \in BookInstanceForms :
       Respond(Request("update_post", "bookinstance", id, NoId, f),
               bookinstance_update_post(db, nextId, id, f))

\* The response has gone out; the next request can be taken.
Finish ==
  /\ pc = "responded"
  /\ pc' = "idle"
  /\ req' = NoRequest
  /\ resp' = <<>>
  /\ prev' = db
  /\ UNCHANGED <<db, nextId, tasks>>

Next ==
  \/ AuthorCreatePost \/ AuthorDeleteGet \/ AuthorDeletePost
  \/ AuthorUpdateGet \/ AuthorUpdatePost
  \/ GenreCreatePost \/ GenreDeleteGet \/ GenreDeletePost
  \/ GenreUpdateGet \/ GenreUpdatePost
  \/ BookCreatePost \/ BookDeleteGet \/ BookDeletePost
  \/ BookUpdateGet \/ BookUpdatePost
  \/ BookInstanceCreatePost \/ BookInstanceDeleteGet \/ BookInstanceDeletePost
  \/ BookInstanceUpdateGet \/ BookInstanceUpdatePost
  \/ Finish

Spec == Init /\ [][Next]_vars

(***************************************************************************)
(* Overlapping requests.  A handler is suspended at every await of a store *)
(* call, and the handlers of other requests run in between: each store     *)
(* call is one step, taken together with the handler code that follows it  *)
(* up to the next await.  The handlers modelled are those of Genre create, *)
(* Book delete and BookInstance create.                                    *)
(***************************************************************************)
RaceGenreForms ==
  { [ name |-> <<"x", "y", "z">> ],
    [ name |-> <<" ", "X", "Y", "Z">> ],
    [ name |-> <<"A", "B", "C">> ],
    [ name |-> <<"a", "b">> ] }

RaceBookInstanceForms ==
  { BookInstanceForm(IdText(3), <<"x">>, <<"A">>, Blank),
    BookInstanceForm(IdText(1), <<"x">>, <<"A">>, Blank),
    BookInstanceForm(Blank, <<"x">>, <<"A">>, Blank) }

\* The ids of the Book delete POSTs: the seeded book, and no book.
RaceBookIds == { IdText(3), IdText(4) }

RaceRequests ==
  { [ kind |-> "genre_create", id |-> NoId, bodyid |-> NoId, form |-> f ] :
      f \in RaceGenreForms }
  \cup { [ kind |-> "book_delete", id |-> i, bodyid |-> b, form |-> <<>> ] :
           i \in RaceBookIds, b \in RaceBookIds }
  \cup { [ kind |-> "bookinstance_create", id |-> NoId, bodyid |-> NoId, form |-> f ] :
           f \in RaceBookInstanceForms }

\* The stores the overlapping requests find: the seeded catalogue, with or
\* without the copy of the seeded book.
InitRace ==
  /\ db \in { Seed, FindByIdAndDelete(Seed, "bookinstance", IdText(4)) }
  /\ nextId = 5
  /\ pc = "idle"
  /\ req = NoRequest
  /\ resp = <<>>
  /\ prev = db
  /\ tasks = NoTasks

\* A request arrives and takes the next free slot.
RaceArrive ==
  \E t \in Tasks, r \in RaceRequests :
    /\ tasks[t].pc = "new"
    /\ \A u \in Tasks : u < t => tasks[u].pc # "new"
    /\ tasks' = [ tasks EXCEPT ![t] =
                    [ NewTask EXCEPT !.kind = r.kind, !.pc = "start", !.id = r.id,
                                     !.bodyid = r.bodyid, !.form = r.form ] ]
    /\ UNCHANGED <<db, nextId, pc, req, resp, prev>>

\* genre_create_post up to the answer of Genre.findOne: the form is
\* rendered on errors, the request redirected when a genre was found, and
\* the save is awaited otherwise.
genre_create_lookup(d, f) ==
  LET errors == GenreErrors(f)
      genre == GenreDoc(f)
      genreExists == GenresNamed(d, genre.name)
  IN IF errors # <<>>
       THEN [ pc |-> "done", found |-> {},
              resp |-> <<Render("genre_form", [errors |-> errors, genre |-> genre])>> ]
       ELSE IF genreExists # {}
         THEN [ pc |-> "done", found |-> genreExists,
                resp |-> <<Redirect(DetailUrl("genre", FirstId(genreExists)))>> ]
         ELSE [ pc |-> "save", found |-> {}, resp |-> <<>> ]

\* genre_create_post from genre.save() on, with a store that refuses a name
\* already stored under the collation (a unique index): the save throws.
genre_create_save_unique(d, n, f) ==
  IF GenresNamed(d, GenreDoc(f).name) # {}
    THEN Out(d, n, <<Throw("MongoServerError")>>)
    ELSE Out(Save(d, "genre", IdText(n), GenreDoc(f)), n + 1,
             <<Redirect(DetailUrl("genre", IdText(n)))>>)

\* genre_create_post from genre.save() on.
genre_create_save(d, n, f) ==
  Out(Save(d, "genre", IdText(n), GenreDoc(f)), n + 1,
      <<Redirect(DetailUrl("genre", IdText(n)))>>)

RaceGenreLookup ==
  \E t \in Tasks :
    /\ tasks[t].kind = "genre_create" /\ tasks[t].pc = "start"
    /\ LET o == genre_create_lookup(db, tasks[t].form)
       IN tasks' = [ tasks EXCEPT ![t].pc = o.pc, ![t].found = o.found,
                                  ![t].resp = o.resp ]
    /\ UNCHANGED <<db, nextId, pc, req, resp, prev>>

RaceGenreSave ==
  \E t \in Tasks :
    /\ tasks[t].kind = "genre_create" /\ tasks[t].pc = "save"
    /\ LET o == genre_create_save(db, nextId, tasks[t].form)
       IN /\ db' = o.db
          /\ nextId' = o.nextId
          /\ tasks' = [ tasks EXCEPT ![t].pc = "done", ![t].resp = o.resp ]
    /\ UNCHANGED <<pc, req, resp, prev>>

\* book_delete_post after Promise.all with no look at instancesOfBook: the
\* book is deleted whatever copies were read.
book_delete_decide_unchecked(book, instancesOfBook, id, bookid) ==
  IF ~book \/ id # bookid
    THEN [ pc |-> "done", resp |-> <<Redirect(ListUrl("book"))>> ]
    ELSE [ pc |-> "delete", resp |-> <<>> ]

\* book_delete_post once Promise.all has resolved: book tells whether
\* findById gave a document, instancesOfBook is what find gave.
book_delete_decide(book, instancesOfBook, id, bookid) ==
  IF ~book \/ id # bookid
    THEN [ pc |-> "done", resp |-> <<Redirect(ListUrl("book"))>> ]
    ELSE IF instancesOfBook # {}
      THEN [ pc |-> "done",
             resp |-> <<Render("book_delete",
                               [ book |-> <<bookid>>,
                                 book_instances |-> instancesOfBook ])>> ]
      ELSE [ pc |-> "delete", resp |-> <<>> ]

\* The handler goes on when both lookups of Promise.all have returned.
BookDeleteResume(task) ==
  IF task.book = <<>> \/ task.instances = <<>>
    THEN task
    ELSE LET o == book_delete_decide(task.book[1], task.instances[1],
                                     task.id, task.bodyid)
         IN [ task EXCEPT !.pc = o.pc, !.resp = o.resp ]

\* Book.findById(req.body.bookid) returns.
RaceBookDeleteReadBook ==
  \E t \in Tasks :
    /\ tasks[t].kind = "book_delete" /\ tasks[t].pc = "start"
    /\ tasks[t].book = <<>>
    /\ tasks' = [ tasks EXCEPT ![t] =
                    BookDeleteResume([ tasks[t] EXCEPT !.book =
                                         <<Exists(db, "book", tasks[t].bodyid)>> ]) ]
    /\ UNCHANGED <<db, nextId, pc, req, resp, prev>>

\* BookInstance.find({ book: req.body.bookid }) returns.
RaceBookDeleteReadInstances ==
  \E t \in Tasks :
    /\ tasks[t].kind = "book_delete" /\ tasks[t].pc = "start"
    /\ tasks[t].instances = <<>>
    /\ tasks' = [ tasks EXCEPT ![t] =
                    BookDeleteResume([ tasks[t] EXCEPT !.instances =
                                         <<InstancesOfBook(db, tasks[t].bodyid)>> ]) ]
    /\ UNCHANGED <<db, nextId, pc, req, resp, prev>>

\* book_delete_post from Book.findByIdAndDelete on.
book_delete_delete(d, n, bookid) ==
  Out(FindByIdAndDelete(d, "book", bookid), n, <<Redirect(ListUrl("book"))>>)

RaceBookDeleteDelete ==
  \E t \in Tasks :
    /\ tasks[t].kind = "book_delete" /\ tasks[t].pc = "delete"
    /\ LET o == book_delete_delete(db, nextId, tasks[t].bodyid)
       IN /\ db' = o.db
          /\ nextId' = o.nextId
          /\ tasks' = [ tasks EXCEPT ![t].pc = "done", ![t].resp = o.resp ]
    /\ UNCHANGED <<pc, req, resp, prev>>

\* The Book deletes that have read their instances and have not answered.
BetweenReadAndDelete ==
  { t \in Tasks : /\ tasks[t].kind = "book_delete"
                  /\ tasks[t].instances # <<>>
                  /\ tasks[t].pc # "done" }

\* bookinstance_create_post: its one store call that writes is the save of
\* the success branch (the failure branch reads the book list, which the
\* rendered form does not keep here).
RaceBookInstanceCreate ==
  \E t \in Tasks :
    /\ tasks[t].kind = "bookinstance_create" /\ tasks[t].pc = "start"
    /\ LET o == bookinstance_create_post(db, nextId, tasks[t].form)
       IN /\ db' = o.db
          /\ nextId' = o.nextId
          /\ tasks' = [ tasks EXCEPT
                          ![t].pc = "done",
                          ![t].resp = o.resp,
                          ![t].bookExisted =
                            Exists(db, "book", BookInstanceDoc(tasks[t].form).book),
                          ![t].pending = BetweenReadAndDelete ]
    /\ UNCHANGED <<pc, req, resp, prev>>

NextRace ==
  \/ RaceArrive
  \/ RaceGenreLookup \/ RaceGenreSave
  \/ RaceBookDeleteReadBook \/ RaceBookDeleteReadInstances
  \/ RaceBookDeleteDelete
  \/ RaceBookInstanceCreate

SpecRace == InitRace /\ [][NextRace]_vars

(***************************************************************************)
(* Vocabulary of the properties.                                           *)
(***************************************************************************)
\* The state right after a handler of the given operation and type ran.
Responded(op, type) == pc = "responded" /\ req.op = op /\ req.type = type

IsPost == pc = "responded" /\ req.op \in {"create_post", "update_post"}

\* The errors validationResult(req) holds for a submission.
ErrorsOf(type, f) ==
  CASE type = "author"       -> AuthorErrors(f)
    [] type = "genre"        -> GenreErrors(f)
    [] type = "book"         -> BookErrors(f, BookCreateMsgs)
    [] type = "bookinstance" -> BookInstanceErrors(f)

ErrorFields(errors) == { errors[i].field : i \in DOMAIN errors }

DocOf(type, f) ==
  CASE type = "author"       -> AuthorDoc(f)
    [] type = "genre"        -> GenreDoc(f)
    [] type = "book"         -> BookDoc(f)
    [] type = "bookinstance" -> BookInstanceDoc(f)

FormsOf(type) ==
  CASE type = "author"       -> AuthorForms
    [] type = "genre"        -> GenreForms
    [] type = "book"         -> BookForms
    [] type = "bookinstance" -> BookInstanceForms

UpdatePost(type, d, n, id, f) ==
  CASE type = "author"       -> author_update_post(d, n, id, f)
    [] type = "genre"        -> genre_update_post(d, n, id, f)
    [] type = "book"         -> book_update_post(d, n, id, f)
    [] type = "bookinstance" -> bookinstance_update_post(d, n, id, f)

FormView(type) ==
  CASE type = "author"       -> "author_form"
    [] type = "genre"        -> "genre_form"
    [] type = "book"         -> "book_form"
    [] type = "bookinstance" -> "bookinstance_form"

DeleteView(type) ==
  CASE type = "author"       -> "author_delete"
    [] type = "genre"        -> "genre_delete"
    [] type = "book"         -> "book_delete"
    [] type = "bookinstance" -> "bookinstance_delete"

\* The entities that reference entity id of the given type in store d.
Dependents(d, type, id) ==
  CASE type = "author"       -> { b \in DOMAIN d.book : d.book[b].author = id }
    [] type = "genre"        -> { b \in DOMAIN d.book :
                                    \E k \in DOMAIN d.book[b].genre :
                                      d.book[b].genre[k] = id }
    [] type = "book"         -> { c \in DOMAIN d.bookinstance :
                                    d.bookinstance[c].book = id }
    [] type = "bookinstance" -> {}

\* The dependents a delete-confirmation view was rendered with.
ListedDependents(type, locals) ==
  CASE type = "author" -> locals.author_books
    [] type = "genre"  -> locals.genre_books
    [] type = "book"   -> locals.book_instances

\* Store e is store d without entity id of the given type, all else equal.
Removed(d, e, type, id) ==
  /\ DOMAIN e[type] = DOMAIN d[type] \ {id}
  /\ \A j \in DOMAIN e[type] : e[type][j] = d[type][j]
  /\ \A t \in Types \ {type} : e[t] = d[t]

\* A text that is empty or holds only whitespace.
AllSpaces(raw) == \A i \in DOMAIN raw : raw[i] = " "

RequiredFields(type) ==
  CASE type = "author"       -> {"first_name", "family_name"}
    [] type = "genre"        -> {"name"}
    [] type = "book"         -> {"title", "author", "summary", "isbn"}
    [] type = "bookinstance" -> {"book", "imprint"}

DateFields(type) ==
  CASE type = "author"       -> {"date_of_birth", "date_of_death"}
    [] type = "bookinstance" -> {"due_back"}
    [] OTHER                 -> {}

\* No two genres of store d have names equal ignoring case.
NoDuplicateGenres(d) ==
  \A g, h \in DOMAIN d.genre :
    g # h => ~CollationEqual(d.genre[g].name, d.genre[h].name)

(***************************************************************************)
(* C1.  A delete POST for an Author, Genre or Book whose body id equals    *)
(* the path id and names an existing entity removes exactly that entity    *)
(* if and only if nothing references it; when something does, the store    *)
(* is left as it was and the delete-confirmation view is rendered with     *)
(* the dependents.  Hence once the dependents are gone a later delete      *)
(* POST removes the entity.                                                *)
(***************************************************************************)
C1_DeleteBlockedByDependents ==
  \A type \in {"author", "genre", "book"} :
    ( /\ Responded("delete_post", type)
      /\ req.bodyid = req.id
      /\ Exists(prev, type, req.id) )
    => IF Dependents(prev, type, req.id) = {}
         THEN /\ Removed(prev, db, type, req.id)
              /\ resp = <<Redirect(ListUrl(type))>>
         ELSE /\ db = prev
              /\ Len(resp) = 1
              /\ resp[1].kind = "render"
              /\ resp[1].view = DeleteView(type)
              /\ ListedDependents(type, resp[1].locals)
                   = Dependents(prev, type, req.id)

\* The seeded book, blocked by its copy at first, has been deleted.
C1_Witness ==
  /\ Responded("delete_post", "book")
  /\ req.id = IdText(3) /\ req.bodyid = IdText(3)
  /\ Exists(prev, "book", IdText(3))
  /\ ~Exists(db, "book", IdText(3))

(***************************************************************************)
(* C2.  Starting from a store with no two genres whose names are equal     *)
(* ignoring case, no Genre create or update POST leads to a store that     *)
(* holds two such genres; a create whose trimmed name matches an existing  *)
(* genre ignoring case writes nothing and redirects to that genre.         *)
(***************************************************************************)
C2_GenreNamesUnique ==
  /\ NoDuplicateGenres(db)
  /\ ( /\ Responded("create_post", "genre")
       /\ GenreErrors(req.form) = <<>>
       /\ \E g \in DOMAIN prev.genre :
            CollationEqual(prev.genre[g].name, Trim(req.form.name)) )
     => /\ db = prev
        /\ \E g \in DOMAIN prev.genre :
             /\ CollationEqual(prev.genre[g].name, Trim(req.form.name))
             /\ resp = <<Redirect(DetailUrl("genre", g))>>

\* "ABC" is submitted while the genre "abc" exists: one genre, named "abc".
C2_Witness ==
  /\ Responded("create_post", "genre")
  /\ req.form.name = <<"A", "B", "C">>
  /\ DOMAIN prev.genre = {IdText(2)}
  /\ prev.genre[IdText(2)].name = <<"a", "b", "c">>
  /\ DOMAIN db.genre = {IdText(2)}
  /\ db.genre[IdText(2)].name = <<"a", "b", "c">>
  /\ resp = <<Redirect(DetailUrl("genre", IdText(2)))>>

(***************************************************************************)
(* C3.  A Book create POST whose title, author, summary and isbn are all   *)
(* non-empty after trimming adds exactly one new Book, redirects to that   *)
(* book's detail location, and the stored genre list holds exactly the     *)
(* submitted genre values in submitted order.                              *)
(***************************************************************************)
SubmittedGenres(f) ==
  IF f.genre.shape = "undefined" THEN <<>>
  ELSE IF f.genre.shape = "scalar" THEN <<f.genre.value>> ELSE f.genre.value

C3_BookCreateStores ==
  ( /\ Responded("create_post", "book")
    /\ \A field \in RequiredFields("book") : ~AllSpaces(req.form[field]) )
  => \E id \in Ids :
       /\ ~Exists(prev, "book", id)
       /\ DOMAIN db.book = DOMAIN prev.book \cup {id}
       /\ \A j \in DOMAIN prev.book : db.book[j] = prev.book[j]
       /\ \A t \in Types \ {"book"} : db[t] = prev[t]
       /\ db.book[id].genre = SubmittedGenres(req.form)
       /\ resp = <<Redirect(DetailUrl("book", id))>>

(***************************************************************************)
(* C4.  A create or update POST of any entity type that fails validation   *)
(* ends with exactly one response, a render of that entity's form with the *)
(* non-empty error list and the submitted values, and never with an error  *)
(* handed to the outer error layer.                                        *)
(***************************************************************************)
C4_ValidationFailureRenders ==
  \A type \in Types :
    ( /\ IsPost /\ req.type = type
      /\ ErrorsOf(type, req.form) # <<>> )
    => /\ Len(resp) = 1
       /\ resp[1].kind = "render"
       /\ resp[1].view = FormView(type)
       /\ resp[1].locals.errors # <<>>
       /\ ErrorFields(resp[1].locals.errors) = ErrorFields(ErrorsOf(type, req.form))
       /\ resp[1].locals[type] = DocOf(type, req.form)

(***************************************************************************)
(* C5.  In every create or update POST: a required text field that is      *)
(* empty or whitespace-only (a Genre name shorter than 3 characters after  *)
(* trimming), or an optional date field that is non-empty and no ISO-8601  *)
(* date, gives a field error for that field and the store is left          *)
(* unchanged; an empty optional date field gives no error for that field.  *)
(***************************************************************************)
FieldIsBad(type, f, field) ==
  \/ /\ field \in RequiredFields(type)
     /\ IF type = "genre" THEN Len(Trim(f[field])) < MinGenreLen
                          ELSE AllSpaces(f[field])
  \/ /\ field \in DateFields(type)
     /\ f[field] # <<>>
     /\ ~IsISO8601(f[field])

C5_InvalidFieldNoWrite ==
  \A type \in Types :
    (IsPost /\ req.type = type)
    => /\ \A field \in RequiredFields(type) \cup DateFields(type) :
            FieldIsBad(type, req.form, field)
            => /\ field \in ErrorFields(ErrorsOf(type, req.form))
               /\ db = prev
       /\ \A field \in DateFields(type) :
            req.form[field] = <<>>
            => field \notin ErrorFields(ErrorsOf(type, req.form))

\* A copy is submitted with a due date that is no date: the form comes back
\* with the error on due_back and nothing was written.
C5_Witness ==
  /\ Responded("create_post", "bookinstance")
  /\ req.form.due_back = NotADate
  /\ Len(resp) = 1
  /\ resp[1].kind = "render"
  /\ "due_back" \in ErrorFields(resp[1].locals.errors)
  /\ db = prev

(***************************************************************************)
(* C6.  For Author, Book and BookInstance a valid update POST for path id  *)
(* i is an upsert: whether or not an entity with id i existed, afterwards  *)
(* the store holds the entity i with the submitted fields, nothing else    *)
(* was added or changed, and the response redirects to the detail          *)
(* location of i.                                                          *)
(***************************************************************************)
C6_UpdateIsUpsert ==
  \A type \in {"author", "book", "bookinstance"} :
    ( /\ Responded("update_post", type)
      /\ ErrorsOf(type, req.form) = <<>> )
    => /\ DOMAIN db[type] = DOMAIN prev[type] \cup {req.id}
       /\ db[type][req.id] = DocOf(type, req.form)
       /\ \A j \in DOMAIN prev[type] \ {req.id} : db[type][j] = prev[type][j]
       /\ \A t \in Types \ {type} : db[t] = prev[t]
       /\ resp = <<Redirect(DetailUrl(type, req.id))>>

(***************************************************************************)
(* C7.  Update is idempotent for every entity type: for an existing entity *)
(* i and valid fields f, a second update POST (i, f) right after the first *)
(* leaves the store as the first left it, adds no entity and changes no    *)
(* id.  The entity then carries f, except that a Genre update whose name   *)
(* equals, ignoring case, the name of a genre already stored (the genre    *)
(* itself included) writes nothing, and the genre keeps the name it had.   *)
(* An update POST with the fields the entity already carries changes       *)
(* nothing.                                                                *)
(***************************************************************************)
\* Some genre of store d has a name equal to the submitted one ignoring case.
NameTaken(d, f) ==
  \E g \in DOMAIN d.genre : CollationEqual(d.genre[g].name, Trim(f.name))

C7_UpdateIdempotent ==
  /\ \A type \in Types :
       ( /\ Responded("update_post", type)
         /\ ErrorsOf(type, req.form) = <<>>
         /\ Exists(prev, type, req.id) )
       => LET twice == UpdatePost(type, db, nextId, req.id, req.form)
          IN /\ twice.db = db
             /\ twice.nextId = nextId
             /\ \A t \in Types : DOMAIN twice.db[t] = DOMAIN prev[t]
             /\ IF type = "genre" /\ NameTaken(prev, req.form)
                  THEN twice.db = prev
                  ELSE twice.db[type][req.id] = DocOf(type, req.form)
  /\ \A type \in Types :
       ( /\ Responded("update_post", type)
         /\ ErrorsOf(type, req.form) = <<>>
         /\ Exists(prev, type, req.id)
         /\ prev[type][req.id] = DocOf(type, req.form) )
       => db = prev

\* The statement as claimed: after the first call and after the second the
\* entity carries f, for every entity type.
C7_UpdateLeavesFields ==
  \A type \in Types :
    ( /\ Responded("update_post", type)
      /\ ErrorsOf(type, req.form) = <<>>
      /\ Exists(prev, type, req.id) )
    => LET twice == UpdatePost(type, db, nextId, req.id, req.form)
       IN /\ twice.db = db
          /\ \A t \in Types : DOMAIN twice.db[t] = DOMAIN prev[t]
          /\ twice.db[type][req.id] = DocOf(type, req.form)

\* The seeded genre, renamed "xyz" by an earlier update, is updated with
\* " xyz" again: the duplicate check finds the genre itself, nothing is
\* written and the response redirects to it.
C7_Witness ==
  /\ Responded("update_post", "genre")
  /\ req.id = IdText(2)
  /\ req.form.name = <<" ", "x", "y", "z">>
  /\ prev.genre[IdText(2)].name = <<"x", "y", "z">>
  /\ db = prev
  /\ resp = <<Redirect(DetailUrl("genre", IdText(2)))>>

(***************************************************************************)
(* C8.  A delete POST of any entity type whose body id differs from the    *)
(* path id, or names no existing entity, redirects to that type's list     *)
(* view, raises no error and leaves every entity as it was.                *)
(***************************************************************************)
C8_DeleteMismatchNoMutation ==
  \A type \in Types :
    ( /\ Responded("delete_post", type)
      /\ (req.bodyid # req.id \/ ~Exists(prev, type, req.bodyid)) )
    => /\ resp = <<Redirect(ListUrl(type))>>
       /\ db = prev

\* The body names an author that exists and has no books, under another
\* path id: the author is still there.
C8_Witness ==
  /\ Responded("delete_post", "author")
  /\ req.bodyid # req.id
  /\ Exists(prev, "author", req.bodyid)
  /\ Dependents(prev, "author", req.bodyid) = {}
  /\ Exists(db, "author", req.bodyid)
  /\ resp = <<Redirect(ListUrl("author"))>>

(***************************************************************************)
(* C9.  A delete_form GET of any entity type gives exactly one response:   *)
(* a redirect to the type's list view when the entity does not exist (the  *)
(* delete view is not rendered), the delete-confirmation view otherwise;   *)
(* never a redirect and a render for one request.                          *)
(***************************************************************************)
C9_DeleteGetOneResponse ==
  \A type \in Types :
    Responded("delete_get", type)
    => /\ Len(resp) = 1
       /\ IF Exists(prev, type, req.id)
            THEN resp[1].kind = "render" /\ resp[1].view = DeleteView(type)
            ELSE resp = <<Redirect(ListUrl(type))>>

(***************************************************************************)
(* C10.  An update_form GET of any entity type for an id that names no     *)
(* existing entity redirects to that type's list view: no form is          *)
(* rendered, no exception is raised and no NotFound error is signalled.    *)
(***************************************************************************)
C10_UpdateGetMissingRedirects ==
  \A type \in Types :
    ( /\ Responded("update_get", type)
      /\ ~Exists(prev, type, req.id) )
    => resp = <<Redirect(ListUrl(type))>>


(***************************************************************************)
(* Overlapping requests (SpecRace).                                        *)
(***************************************************************************)
\* The request in slot t is a Genre create POST whose name passed the
\* validation and whose duplicate-name lookup found no genre.
PassedLookup(t) ==
  /\ tasks[t].kind = "genre_create"
  /\ tasks[t].pc \in {"save", "done"}
  /\ GenreErrors(tasks[t].form) = <<>>
  /\ tasks[t].found = {}

\* The request in slot t was redirected to the genre g, stored under the
\* name the request submitted.
CreatedGenre(t, g) ==
  /\ tasks[t].resp = <<Redirect(DetailUrl("genre", g))>>
  /\ Exists(db, "genre", g)
  /\ db.genre[g] = GenreDoc(tasks[t].form)

\* C11: when two Genre create POSTs whose names are equal ignoring case
\* overlap so that both duplicate-name lookups complete before either save
\* (both lookups find no genre), both requests succeed: once both have
\* answered, each was redirected to a genre of its own, and the store holds
\* the two genres, with names equal ignoring case.
C11_GenreCreateRace ==
  \A t, u \in Tasks :
    ( /\ t # u
      /\ PassedLookup(t) /\ PassedLookup(u)
      /\ CollationEqual(GenreDoc(tasks[t].form).name, GenreDoc(tasks[u].form).name)
      /\ tasks[t].pc = "done" /\ tasks[u].pc = "done" )
    => \E g, h \in DOMAIN db.genre :
         /\ g # h
         /\ CreatedGenre(t, g) /\ CreatedGenre(u, h)
         /\ CollationEqual(db.genre[g].name, db.genre[h].name)

\* Two overlapping Genre create POSTs, one naming "xyz" and one " XYZ", have
\* both answered with a redirect, and the store holds two genres whose names
\* are equal ignoring case.
C11_Witness ==
  \E t, u \in Tasks :
    /\ t # u
    /\ tasks[t].pc = "done" /\ tasks[u].pc = "done"
    /\ PassedLookup(t) /\ PassedLookup(u)
    /\ tasks[t].form.name # tasks[u].form.name
    /\ \E g, h \in DOMAIN db.genre :
         /\ g # h
         /\ CreatedGenre(t, g) /\ CreatedGenre(u, h)
         /\ db.genre[g].name # db.genre[h].name
         /\ CollationEqual(db.genre[g].name, db.genre[h].name)

\* The request in slot u is a BookInstance create POST that saved the copy c
\* and was redirected to it.
SavedCopy(u, c) ==
  /\ tasks[u].kind = "bookinstance_create"
  /\ tasks[u].pc = "done"
  /\ tasks[u].resp = <<Redirect(DetailUrl("bookinstance", c))>>
  /\ Exists(db, "bookinstance", c)

\* The request in slot t is a Book delete POST for the book b that found the
\* book, read no copy of it, deleted it and answered.
DeletedBook(t, b) ==
  /\ tasks[t].kind = "book_delete"
  /\ tasks[t].pc = "done"
  /\ tasks[t].id = b /\ tasks[t].bodyid = b
  /\ tasks[t].book = <<TRUE>>
  /\ tasks[t].instances = <<{}>>
  /\ tasks[t].resp = <<Redirect(ListUrl("book"))>>

\* The copy c names a book that is not stored.
Dangling(c) == ~Exists(db, "book", db.bookinstance[c].book)

\* C12: a Book delete POST that read no copy of its book before a
\* BookInstance create POST saved a copy of that book, and deleted after the
\* save, removes the book and leaves the copy naming no stored book; and a
\* copy saved by a create POST while its book was stored names no stored
\* book only in that case, i.e. only when the save fell between the
\* dependent read and the delete of a Book delete POST for that book.
C12_DeleteCreateRace ==
  \A u \in Tasks : \A c \in DOMAIN db.bookinstance :
    SavedCopy(u, c) =>
      LET b == db.bookinstance[c].book
      IN /\ \A t \in tasks[u].pending :
              DeletedBook(t, b) => ~Exists(db, "book", b) /\ Dangling(c)
         /\ (tasks[u].bookExisted /\ Dangling(c))
              => \E t \in tasks[u].pending : DeletedBook(t, b)

\* A copy of book 3 was saved while the book was stored, between the
\* dependent read and the delete of a Book delete POST for book 3: the book
\* is gone and the copy is stored.
C12_Witness ==
  \E u, t \in Tasks : \E c \in DOMAIN db.bookinstance :
    /\ SavedCopy(u, c)
    /\ tasks[u].bookExisted
    /\ t \in tasks[u].pending
    /\ DeletedBook(t, IdText(3))
    /\ db.bookinstance[c].book = IdText(3)
    /\ Dangling(c)

(***************************************************************************)
(* BookInstance deletion (Spec).                                           *)
(***************************************************************************)
\* C13: a BookInstance delete POST whose body id equals the path id and
\* names a stored instance removes exactly that instance and ends with one
\* redirect response and no error, whether or not the instance's book is
\* stored; the redirect goes to the book's location when the book is stored.
C13_InstanceDeleteRedirects ==
  ( /\ Responded("delete_post", "bookinstance")
    /\ req.bodyid = req.id
    /\ Exists(prev, "bookinstance", req.id) )
  => /\ Removed(prev, db, "bookinstance", req.id)
     /\ Len(resp) = 1
     /\ resp[1].kind = "redirect"
     /\ Exists(prev, "book", prev.bookinstance[req.id].book)
          => resp[1].url = DetailUrl("book", prev.bookinstance[req.id].book)
====
